---------------------------- MODULE Spec2Model ----------------------------
(***************************************************************************)
(* A model of gevg/grpc-throughputlb, throughput_load_balancer.go: the     *)
(* ThroughputLoadBalancer (a fixed pool of address slots for one target),  *)
(* its per-slot claim/release counters and health, the least-loaded scan   *)
(* of next(), and the Notify channel written by Start.                     *)
(*                                                                         *)
(* Goroutines: NumThreads callers, each running Get or Up one statement    *)
(* (one critical section) at a time; one starter running Start; and the    *)
(* environment, which invokes the callbacks Get and Up returned, receives  *)
(* from Notify and calls Close.  Every method of address is one critical   *)
(* section under the slot's own mutex and is one step here.                *)
(***************************************************************************)
EXTENDS Integers, Sequences, FiniteSets, TLC

\* ------------------------------------------------------------------ bounds
\* NewThroughputLoadBalancer's arguments.
numAddrs == 2
maxRequests == 1
\* Caller goroutines.
NumThreads == 2
\* Calls of Start (each allocates numAddrs new address objects).
MaxStarts == 1
\* Release callbacks returned by Get and not yet invoked, plus Gets in progress.
MaxOutstanding == 2
\* release() is not taken below -MaxDeficit (the counter has no floor of its own).
MaxDeficit == 1

\* --------------------------------------------------------------- constants
stateDown == 0
stateUp == 1

Threads == 1..NumThreads
Indexes == 0..(numAddrs - 1)
Targets == {"t1"}

\* A *address: the object allocated by the g-th Start for index i; Nil is the
\* nil pointer the constructor's make([]*address, numAddrs) leaves in the slice.
Refs == (1..MaxStarts) \X Indexes
Nil == <<0, 0>>

\* grpc.Address.Metadata is an interface{}: Start stores the int i, and a
\* caller of Up may leave it nil; nil equals no int.
NilMetadata == -1

\* The zero address struct (what a Ref that is not allocated yet holds).
ZeroAddress ==
    [Addr |-> "", Metadata |-> NilMetadata, state |-> stateDown,
     activeRequests |-> 0, maxRequests |-> 0]

VARIABLES
    lb_addrs,        \* lb.addrs: index -> *address
    lb_target,       \* lb.target
    notify,          \* lb.notify: the buffered channel, a sequence of snapshots
    mu,              \* lb.mu: [readers, pending, writer]
    heap,            \* the address objects: Ref -> address struct
    nAlloc,          \* how many generations of address objects Start has allocated
    pc,              \* caller goroutine -> position
    wait,            \* next's parameter
    idx,             \* the range loop's index (next, Up)
    addr,            \* next's local addr / Up's matched a
    lowestCapacity,  \* next's local lowestCapacity
    upAddr,          \* Up's parameter addr
    err,             \* Get's local err (next's second result); claim's in a direct call
    spc,             \* the starter goroutine's position
    sTarget,         \* Start's parameter target
    sIdx,            \* Start's and sendNotify's loop index
    grpcAddrs,       \* sendNotify's local grpcAddrs
    releases,        \* Ref -> number of addr.release callbacks returned and not yet invoked
    handles,         \* the Refs whose a.goDown Up has returned
    crashed          \* a nil pointer dereference has panicked the process

lbVars == <<lb_addrs, lb_target, notify>>
nextLocals == <<wait, idx, addr, lowestCapacity, err>>
callerVars == <<pc, wait, idx, addr, lowestCapacity, upAddr, err>>
starterVars == <<spc, sTarget, sIdx, grpcAddrs>>
cbVars == <<releases, handles>>
vars == <<lb_addrs, lb_target, notify, mu, heap, nAlloc, pc, wait, idx, addr,
          lowestCapacity, upAddr, err, spc, sTarget, sIdx, grpcAddrs,
          releases, handles, crashed>>

\* ----------------------------------------------------------------- address
\* a.Address, the embedded grpc.Address
Address(a) == [Addr |-> a.Addr, Metadata |-> a.Metadata]

\* claim() with > for >= in the ceiling test.
claim_offByOne(a) ==
    IF a.activeRequests > a.maxRequests
    THEN [a |-> a, err |-> "errMaxRequestsExceeded"]
    ELSE [a |-> [a EXCEPT !.activeRequests = @ + 1], err |-> "nil"]

\* claim(): the struct after the call and the error returned
claim(a) ==
    IF a.activeRequests >= a.maxRequests
    THEN [a |-> a, err |-> "errMaxRequestsExceeded"]
    ELSE [a |-> [a EXCEPT !.activeRequests = @ + 1], err |-> "nil"]

\* release that leaves a slot that is Down alone.
release_onlyUp(a) ==
    IF a.state = stateUp THEN [a EXCEPT !.activeRequests = @ - 1] ELSE a

release(a) == [a EXCEPT !.activeRequests = @ - 1]

goUp(a) == [a EXCEPT !.state = stateUp]

\* goDown that also forgets the slot's load.
goDown_resetsLoad(a) == [a EXCEPT !.state = stateDown, !.activeRequests = 0]

goDown(a) == [a EXCEPT !.state = stateDown]

isUp(a) == a.state = stateUp

\* isDown with the test inverted.
isDown_inverted(a) == a.state = stateUp

\* isDown that reports every slot Down.
isDown_always(a) == TRUE

isDown(a) == a.state = stateDown

capacity(a) == a.activeRequests

\* Every slot made with the index of the first.
newAddress_sameIndex(target, i) ==
    [Addr |-> target, Metadata |-> 0, state |-> stateDown,
     activeRequests |-> 0, maxRequests |-> maxRequests]

\* Start's &address{Address: grpc.Address{Addr: lb.target, Metadata: i}, maxRequests: lb.maxRequests}
newAddress(target, i) ==
    [Addr |-> target, Metadata |-> i, state |-> stateDown,
     activeRequests |-> 0, maxRequests |-> maxRequests]

\* ------------------------------------------------------------------- lb.mu
\* sync.RWMutex: a Lock() that is waiting for the readers to leave already
\* keeps new readers out.
CanRLock == ~mu.pending /\ ~mu.writer
RLock(t) == [mu EXCEPT !.readers = @ \cup {t}]
\* A reader that leaves without lb.mu.RUnlock().
RUnlock_forgotten(t) == mu

RUnlock(t) == [mu EXCEPT !.readers = @ \ {t}]

\* -------------------------------------------------------------------- Init
\* The state NewThroughputLoadBalancer returns.
Init ==
    /\ lb_addrs = [i \in Indexes |-> Nil]
    /\ lb_target = ""
    /\ notify = <<>>
    /\ mu = [readers |-> {}, pending |-> FALSE, writer |-> FALSE]
    /\ heap = [r \in Refs |-> ZeroAddress]
    /\ nAlloc = 0
    /\ pc = [t \in Threads |-> "idle"]
    /\ wait = [t \in Threads |-> FALSE]
    /\ idx = [t \in Threads |-> 0]
    /\ addr = [t \in Threads |-> Nil]
    /\ lowestCapacity = [t \in Threads |-> 0]
    /\ upAddr = [t \in Threads |-> [Addr |-> "", Metadata |-> NilMetadata]]
    /\ err = [t \in Threads |-> "nil"]
    /\ spc = "idle"
    /\ sTarget = ""
    /\ sIdx = 0
    /\ grpcAddrs = <<>>
    /\ releases = [r \in Refs |-> 0]
    /\ handles = {}
    /\ crashed = FALSE


\* ------------------------------------------------------- caller bookkeeping
RECURSIVE SumOver(_, _)
SumOver(f, S) ==
    IF S = {} THEN 0
    ELSE LET r == CHOOSE x \in S : TRUE IN f[r] + SumOver(f, S \ {r})

GetPcs == {"next_RLock", "next_isDown", "next_capacity", "next_assign",
           "next_RUnlock", "next_claim", "next_Sleep", "Get_return", "Get_err"}

\* Release callbacks the callers hold, and Gets that may still return one.
Outstanding ==
    SumOver(releases, Refs) + Cardinality({t \in Threads : pc[t] \in GetPcs})

ResetLocals(t) ==
    /\ wait' = [wait EXCEPT ![t] = FALSE]
    /\ idx' = [idx EXCEPT ![t] = 0]
    /\ addr' = [addr EXCEPT ![t] = Nil]
    /\ lowestCapacity' = [lowestCapacity EXCEPT ![t] = 0]
    /\ upAddr' = [upAddr EXCEPT ![t] = [Addr |-> "", Metadata |-> NilMetadata]]
    /\ err' = [err EXCEPT ![t] = "nil"]

\* --------------------------------------------------------------- Get / next
\* lowestCapacity := lb.maxRequests * 2
lowestCapacityInit == maxRequests * 2

\* The comparison with <= for <: of equal loads the last scanned wins.
isLower_orEqual(c, lowest) == c <= lowest

\* a.capacity() < lowestCapacity
isLower(c, lowest) == c < lowest

\* The wait test inverted: the blocking Get fails, the other one sleeps.
failsFast_inverted(w) == w

\* The wait test dropped: every Get that finds no slot fails.
failsFast_always(w) == TRUE

\* if !wait { return nil, errUnavailable }
failsFast(w) == ~w

\* Where the range loop of next goes after element i.
NextAfter(i) == IF i + 1 < numAddrs THEN "next_isDown" ELSE "next_RUnlock"

\* Get(ctx, opts): addr, err := lb.next(opts.BlockingWait)
CallGet(t, w) ==
    /\ ~crashed
    /\ pc[t] = "idle"
    /\ Outstanding < MaxOutstanding
    /\ pc' = [pc EXCEPT ![t] = "next_RLock"]
    /\ wait' = [wait EXCEPT ![t] = w]
    /\ UNCHANGED <<lbVars, mu, heap, nAlloc, idx, addr, lowestCapacity, upAddr,
                   err, starterVars, cbVars, crashed>>

\* One iteration of next's for: var addr; lowestCapacity := ...; lb.mu.RLock()
NextRLock(t) ==
    /\ ~crashed
    /\ pc[t] = "next_RLock"
    /\ CanRLock
    /\ mu' = RLock(t)
    /\ addr' = [addr EXCEPT ![t] = Nil]
    /\ lowestCapacity' = [lowestCapacity EXCEPT ![t] = lowestCapacityInit]
    /\ idx' = [idx EXCEPT ![t] = 0]
    /\ pc' = [pc EXCEPT ![t] = IF numAddrs > 0 THEN "next_isDown" ELSE "next_RUnlock"]
    /\ UNCHANGED <<lbVars, heap, nAlloc, wait, upAddr, err, starterVars, cbVars,
                   crashed>>

\* a := lb.addrs[i]; if a.isDown() { continue }
NextIsDown(t) ==
    /\ ~crashed
    /\ pc[t] = "next_isDown"
    /\ LET a == lb_addrs[idx[t]] IN
        \/ /\ a = Nil      \* a.mu.RLock() on a nil *address
           /\ crashed' = TRUE
           /\ pc' = [pc EXCEPT ![t] = "panic"]
           /\ UNCHANGED idx
        \/ /\ a # Nil
           /\ isDown(heap[a])
           /\ pc' = [pc EXCEPT ![t] = NextAfter(idx[t])]
           /\ idx' = [idx EXCEPT ![t] = @ + 1]
           /\ UNCHANGED crashed
        \/ /\ a # Nil
           /\ ~isDown(heap[a])
           /\ pc' = [pc EXCEPT ![t] = "next_capacity"]
           /\ UNCHANGED <<idx, crashed>>
    /\ UNCHANGED <<lbVars, mu, heap, nAlloc, wait, addr, lowestCapacity, upAddr,
                   err, starterVars, cbVars>>

\* if a.capacity() < lowestCapacity { addr = a
NextCapacity(t) ==
    /\ ~crashed
    /\ pc[t] = "next_capacity"
    /\ LET a == lb_addrs[idx[t]] IN
        \/ /\ isLower(capacity(heap[a]), lowestCapacity[t])
           /\ addr' = [addr EXCEPT ![t] = a]
           /\ pc' = [pc EXCEPT ![t] = "next_assign"]
           /\ UNCHANGED idx
        \/ /\ ~isLower(capacity(heap[a]), lowestCapacity[t])
           /\ pc' = [pc EXCEPT ![t] = NextAfter(idx[t])]
           /\ idx' = [idx EXCEPT ![t] = @ + 1]
           /\ UNCHANGED addr
    /\ UNCHANGED <<lbVars, mu, heap, nAlloc, wait, lowestCapacity, upAddr, err,
                   starterVars, cbVars, crashed>>

\* lowestCapacity = a.capacity() }: a second read of the counter
NextAssign(t) ==
    /\ ~crashed
    /\ pc[t] = "next_assign"
    /\ lowestCapacity' = [lowestCapacity EXCEPT ![t] = capacity(heap[lb_addrs[idx[t]]])]
    /\ pc' = [pc EXCEPT ![t] = NextAfter(idx[t])]
    /\ idx' = [idx EXCEPT ![t] = @ + 1]
    /\ UNCHANGED <<lbVars, mu, heap, nAlloc, wait, addr, upAddr, err,
                   starterVars, cbVars, crashed>>

\* lb.mu.RUnlock(); if addr != nil ...; if !wait ...
NextRUnlock(t) ==
    /\ ~crashed
    /\ pc[t] = "next_RUnlock"
    /\ mu' = RUnlock(t)
    /\ pc' = [pc EXCEPT ![t] =
                IF addr[t] # Nil THEN "next_claim"
                ELSE IF failsFast(wait[t]) THEN "Get_err"
                ELSE "next_Sleep"]
    /\ err' = [err EXCEPT ![t] =
                IF addr[t] = Nil /\ failsFast(wait[t]) THEN "errUnavailable" ELSE @]
    /\ UNCHANGED <<lbVars, heap, nAlloc, wait, idx, addr, lowestCapacity, upAddr,
                   starterVars, cbVars, crashed>>

\* next's second result with the error of claim() handed on to the caller.
nextErr_propagated(claimErr) == claimErr

\* addr.claim(); return addr, nil: the error claim returns is dropped
nextErr(claimErr) == "nil"

\* addr.claim(); return addr, nil; and in Get: if err != nil { return ..., err }
NextClaim(t) ==
    /\ ~crashed
    /\ pc[t] = "next_claim"
    /\ heap' = [heap EXCEPT ![addr[t]] = claim(@).a]
    /\ err' = [err EXCEPT ![t] = nextErr(claim(heap[addr[t]]).err)]
    /\ pc' = [pc EXCEPT ![t] = IF err'[t] # "nil" THEN "Get_err" ELSE "Get_return"]
    /\ UNCHANGED <<lbVars, mu, nAlloc, wait, idx, addr, lowestCapacity, upAddr,
                   starterVars, cbVars, crashed>>

\* time.Sleep(50 * time.Millisecond), and round the for again
NextSleep(t) ==
    /\ ~crashed
    /\ pc[t] = "next_Sleep"
    /\ pc' = [pc EXCEPT ![t] = "next_RLock"]
    /\ UNCHANGED <<lbVars, mu, heap, nAlloc, nextLocals, upAddr, starterVars,
                   cbVars, crashed>>

\* return addr.Address, addr.release, nil: the caller now holds addr.release
GetReturn(t) ==
    /\ ~crashed
    /\ pc[t] = "Get_return"
    /\ releases' = [releases EXCEPT ![addr[t]] = @ + 1]
    /\ pc' = [pc EXCEPT ![t] = "idle"]
    /\ ResetLocals(t)
    /\ UNCHANGED <<lbVars, mu, heap, nAlloc, starterVars, handles, crashed>>

\* return grpc.Address{}, func() {}, err
GetReturnErr(t) ==
    /\ ~crashed
    /\ pc[t] = "Get_err"
    /\ pc' = [pc EXCEPT ![t] = "idle"]
    /\ ResetLocals(t)
    /\ UNCHANGED <<lbVars, mu, heap, nAlloc, starterVars, cbVars, crashed>>


\* ---------------------------------------------------------------------- Up
\* The addresses a health reporter may pass to Up.
UpInputs == [Addr : Targets, Metadata : {NilMetadata} \cup Indexes]

\* The comparison of the Addr strings alone, whatever the Metadata.
sameAddress_addrOnly(a, ga) == a.Addr = ga.Addr

\* a.Address == addr: grpc.Address is compared field by field
sameAddress(a, ga) == Address(a) = ga

CallUp(t, ga) ==
    /\ ~crashed
    /\ pc[t] = "idle"
    /\ pc' = [pc EXCEPT ![t] = "Up_RLock"]
    /\ upAddr' = [upAddr EXCEPT ![t] = ga]
    /\ UNCHANGED <<lbVars, mu, heap, nAlloc, nextLocals, starterVars, cbVars,
                   crashed>>

\* lb.mu.RLock(); addrs := lb.addrs (the slice header: the same backing array)
UpRLock(t) ==
    /\ ~crashed
    /\ pc[t] = "Up_RLock"
    /\ CanRLock
    /\ mu' = RLock(t)
    /\ pc' = [pc EXCEPT ![t] = "Up_RUnlock"]
    /\ UNCHANGED <<lbVars, heap, nAlloc, nextLocals, upAddr, starterVars,
                   cbVars, crashed>>

UpRUnlock(t) ==
    /\ ~crashed
    /\ pc[t] = "Up_RUnlock"
    /\ mu' = RUnlock(t)
    /\ idx' = [idx EXCEPT ![t] = 0]
    /\ pc' = [pc EXCEPT ![t] = IF numAddrs > 0 THEN "Up_range" ELSE "Up_noop"]
    /\ UNCHANGED <<lbVars, heap, nAlloc, wait, addr, lowestCapacity, upAddr,
                   err, starterVars, cbVars, crashed>>

\* for _, a := range addrs { if a.Address == addr {: the element is read
\* after lb.mu was released
UpRange(t) ==
    /\ ~crashed
    /\ pc[t] = "Up_range"
    /\ LET a == lb_addrs[idx[t]] IN
        \/ /\ a = Nil      \* a.Address on a nil *address
           /\ crashed' = TRUE
           /\ pc' = [pc EXCEPT ![t] = "panic"]
           /\ UNCHANGED <<idx, addr>>
        \/ /\ a # Nil
           /\ sameAddress(heap[a], upAddr[t])
           /\ addr' = [addr EXCEPT ![t] = a]
           /\ pc' = [pc EXCEPT ![t] = "Up_goUp"]
           /\ UNCHANGED <<idx, crashed>>
        \/ /\ a # Nil
           /\ ~sameAddress(heap[a], upAddr[t])
           /\ idx' = [idx EXCEPT ![t] = @ + 1]
           /\ pc' = [pc EXCEPT ![t] = IF idx[t] + 1 < numAddrs THEN "Up_range" ELSE "Up_noop"]
           /\ UNCHANGED <<addr, crashed>>
    /\ UNCHANGED <<lbVars, mu, heap, nAlloc, wait, lowestCapacity, upAddr, err,
                   starterVars, cbVars>>

\* a.goUp(); return a.goDown
UpGoUp(t) ==
    /\ ~crashed
    /\ pc[t] = "Up_goUp"
    /\ heap' = [heap EXCEPT ![addr[t]] = goUp(@)]
    /\ handles' = handles \cup {addr[t]}
    /\ pc' = [pc EXCEPT ![t] = "idle"]
    /\ ResetLocals(t)
    /\ UNCHANGED <<lbVars, mu, nAlloc, starterVars, releases, crashed>>

\* return func(_ error) {}
UpNoop(t) ==
    /\ ~crashed
    /\ pc[t] = "Up_noop"
    /\ pc' = [pc EXCEPT ![t] = "idle"]
    /\ ResetLocals(t)
    /\ UNCHANGED <<lbVars, mu, heap, nAlloc, starterVars, cbVars, crashed>>

\* ------------------------------------------------------------------- Start
\* Start(target, cfg): lb.mu.Lock() is called, and from now keeps readers out
CallStart(target) ==
    /\ ~crashed
    /\ spc = "idle"
    /\ nAlloc < MaxStarts
    /\ sTarget' = target
    /\ mu' = [mu EXCEPT !.pending = TRUE]
    /\ spc' = "Start_Lock"
    /\ UNCHANGED <<lbVars, heap, nAlloc, callerVars, sIdx, grpcAddrs, cbVars,
                   crashed>>

\* lb.mu.Lock() returns; lb.target = target
StartLock ==
    /\ ~crashed
    /\ spc = "Start_Lock"
    /\ mu.readers = {}
    /\ mu' = [mu EXCEPT !.pending = FALSE, !.writer = TRUE]
    /\ lb_target' = sTarget
    /\ nAlloc' = nAlloc + 1
    /\ sIdx' = 0
    /\ spc' = IF numAddrs > 0 THEN "Start_fill" ELSE "Start_Unlock"
    /\ UNCHANGED <<lb_addrs, notify, heap, callerVars, sTarget, grpcAddrs,
                   cbVars, crashed>>

\* lb.addrs[i] = &address{...}
StartFill ==
    /\ ~crashed
    /\ spc = "Start_fill"
    /\ LET a == <<nAlloc, sIdx>> IN
        /\ heap' = [heap EXCEPT ![a] = newAddress(lb_target, sIdx)]
        /\ lb_addrs' = [lb_addrs EXCEPT ![sIdx] = a]
    /\ sIdx' = sIdx + 1
    /\ spc' = IF sIdx + 1 < numAddrs THEN "Start_fill" ELSE "Start_Unlock"
    /\ UNCHANGED <<lb_target, notify, mu, nAlloc, callerVars, sTarget,
                   grpcAddrs, cbVars, crashed>>

\* lb.mu.Unlock(); lb.sendNotify()
StartUnlock ==
    /\ ~crashed
    /\ spc = "Start_Unlock"
    /\ mu' = [mu EXCEPT !.writer = FALSE]
    /\ spc' = "sendNotify_RLock"
    /\ UNCHANGED <<lbVars, heap, nAlloc, callerVars, sTarget, sIdx, grpcAddrs,
                   cbVars, crashed>>

\* The starter's name as a reader of lb.mu.
Starter == NumThreads + 1

SendNotifyRLock ==
    /\ ~crashed
    /\ spc = "sendNotify_RLock"
    /\ CanRLock
    /\ mu' = RLock(Starter)
    /\ spc' = "sendNotify_RUnlock"
    /\ UNCHANGED <<lbVars, heap, nAlloc, callerVars, sTarget, sIdx, grpcAddrs,
                   cbVars, crashed>>

\* lb.mu.RUnlock(); grpcAddrs := make([]grpc.Address, len(addrs))
SendNotifyRUnlock ==
    /\ ~crashed
    /\ spc = "sendNotify_RUnlock"
    /\ mu' = RUnlock(Starter)
    /\ grpcAddrs' = <<>>
    /\ sIdx' = 0
    /\ spc' = IF numAddrs > 0 THEN "sendNotify_range" ELSE "sendNotify_send"
    /\ UNCHANGED <<lbVars, heap, nAlloc, callerVars, sTarget, cbVars, crashed>>

\* A snapshot that leaves out the slots that are not Up.
sendNotifyAppend_onlyUp(g, a) == IF isUp(a) THEN Append(g, Address(a)) ELSE g

\* grpcAddrs[i] = a.Address, for every element of addrs
sendNotifyAppend(g, a) == Append(g, Address(a))

SendNotifyRange ==
    /\ ~crashed
    /\ spc = "sendNotify_range"
    /\ grpcAddrs' = sendNotifyAppend(grpcAddrs, heap[lb_addrs[sIdx]])
    /\ sIdx' = sIdx + 1
    /\ spc' = IF sIdx + 1 < numAddrs THEN "sendNotify_range" ELSE "sendNotify_send"
    /\ UNCHANGED <<lbVars, mu, heap, nAlloc, callerVars, sTarget, cbVars, crashed>>

\* A channel made without a buffer.
notifyCap_unbuffered == numAddrs - numAddrs

\* notify: make(chan []grpc.Address, numAddrs)
notifyCap == numAddrs

\* lb.notify <- grpcAddrs: blocks while the channel holds numAddrs elements;
\* then Start returns nil
SendNotifySend ==
    /\ ~crashed
    /\ spc = "sendNotify_send"
    /\ Len(notify) < notifyCap
    /\ notify' = Append(notify, grpcAddrs)
    /\ spc' = "idle"
    /\ sTarget' = ""
    /\ sIdx' = 0
    /\ grpcAddrs' = <<>>
    /\ UNCHANGED <<lb_addrs, lb_target, mu, heap, nAlloc, callerVars, cbVars,
                   crashed>>

\* ------------------------------------------------------------- environment
\* A caller invokes the release callback a Get returned (addr.release), once.
InvokeRelease(r) ==
    /\ ~crashed
    /\ releases[r] > 0
    /\ heap[r].activeRequests > -MaxDeficit
    /\ heap' = [heap EXCEPT ![r] = release(@)]
    /\ releases' = [releases EXCEPT ![r] = @ - 1]
    /\ UNCHANGED <<lbVars, mu, nAlloc, callerVars, starterVars, handles, crashed>>

\* The health reporter invokes a handle Up returned (a.goDown), with any error.
InvokeDown(r) ==
    /\ ~crashed
    /\ r \in handles
    /\ heap' = [heap EXCEPT ![r] = goDown(@)]
    /\ UNCHANGED <<lbVars, mu, nAlloc, callerVars, starterVars, cbVars, crashed>>

\* The client receives from Notify().
Receive ==
    /\ ~crashed
    /\ notify # <<>>
    /\ notify' = Tail(notify)
    /\ UNCHANGED <<lb_addrs, lb_target, mu, heap, nAlloc, callerVars,
                   starterVars, cbVars, crashed>>

\* Close() returns nil.
Close ==
    /\ ~crashed
    /\ UNCHANGED vars

\* -------------------------------------------------------------------- Next
\* The steps of a call in progress (every step but the call itself).
GetProgress(t) ==
    \/ NextRLock(t)
    \/ NextIsDown(t)
    \/ NextCapacity(t)
    \/ NextAssign(t)
    \/ NextRUnlock(t)
    \/ NextClaim(t)
    \/ NextSleep(t)
    \/ GetReturn(t)
    \/ GetReturnErr(t)

GetStep(t) ==
    \/ \E w \in BOOLEAN : CallGet(t, w)
    \/ GetProgress(t)

UpProgress(t) ==
    \/ UpRLock(t)
    \/ UpRUnlock(t)
    \/ UpRange(t)
    \/ UpGoUp(t)
    \/ UpNoop(t)

UpStep(t) ==
    \/ \E ga \in UpInputs : CallUp(t, ga)
    \/ UpProgress(t)

StartProgress ==
    \/ StartLock
    \/ StartFill
    \/ StartUnlock
    \/ SendNotifyRLock
    \/ SendNotifyRUnlock
    \/ SendNotifyRange
    \/ SendNotifySend

StartStep ==
    \/ \E target \in Targets : CallStart(target)
    \/ StartProgress

EnvStep ==
    \/ \E r \in Refs : InvokeRelease(r)
    \/ \E r \in Refs : InvokeDown(r)
    \/ Receive
    \/ Close

Next ==
    \/ \E t \in Threads : GetStep(t)
    \/ \E t \in Threads : UpStep(t)
    \/ StartStep
    \/ EnvStep

Spec == Init /\ [][Next]_vars


\* The Go scheduler runs every goroutine that can run: a call in progress
\* takes its next step (a Sleep ends, a lock that stays free is acquired).
Fairness ==
    /\ \A t \in Threads : WF_vars(GetProgress(t))
    /\ \A t \in Threads : WF_vars(UpProgress(t))
    /\ WF_vars(StartProgress)

\* The scenario of a caller waiting for the health reporter: the first
\* goroutine calls Get, the others call Up, and the starter and the
\* environment are as in Next.
Getter == CHOOSE t \in Threads : \A u \in Threads : t <= u

LiveNext ==
    \/ GetStep(Getter)
    \/ \E t \in Threads \ {Getter} : UpStep(t)
    \/ StartStep
    \/ EnvStep

SpecLive == Init /\ [][LiveNext]_vars /\ Fairness

\* The same scenario with no reader of Notify: nothing is ever received.
NoReaderNext ==
    \/ GetStep(Getter)
    \/ \E t \in Threads \ {Getter} : UpStep(t)
    \/ StartStep
    \/ \E r \in Refs : InvokeRelease(r)
    \/ \E r \in Refs : InvokeDown(r)
    \/ Close

SpecNoReader == Init /\ [][NoReaderNext]_vars /\ Fairness

\* One operation at a time: a caller's Get or Up, the starter's Start and the
\* environment's calls each run from call to return with nothing in between.
OthersIdle(t) == spc = "idle" /\ \A u \in Threads \ {t} : pc[u] = "idle"
CallersIdle == \A u \in Threads : pc[u] = "idle"

SeqNext ==
    \/ \E t \in Threads : OthersIdle(t) /\ GetStep(t)
    \/ \E t \in Threads : OthersIdle(t) /\ UpStep(t)
    \/ CallersIdle /\ StartStep
    \/ CallersIdle /\ spc = "idle" /\ EnvStep

SpecSeq == Init /\ [][SeqNext]_vars

\* ------------------------------------------------- the address methods alone
\* The slots of a started pool, in any health and with any load from 0 to the
\* ceiling, and callers that call the methods of a slot directly (each method
\* is one critical section under the slot's mutex).
InitAddress ==
    /\ lb_addrs = [i \in Indexes |-> <<1, i>>]
    /\ lb_target \in Targets
    /\ notify = <<>>
    /\ mu = [readers |-> {}, pending |-> FALSE, writer |-> FALSE]
    /\ \E st \in [Indexes -> {stateDown, stateUp}], n \in [Indexes -> 0..maxRequests] :
          heap = [r \in Refs |->
                    IF r[1] = 1
                    THEN [newAddress(lb_target, r[2])
                            EXCEPT !.state = st[r[2]], !.activeRequests = n[r[2]]]
                    ELSE ZeroAddress]
    /\ nAlloc = 1
    /\ pc = [t \in Threads |-> "idle"]
    /\ wait = [t \in Threads |-> FALSE]
    /\ idx = [t \in Threads |-> 0]
    /\ addr = [t \in Threads |-> Nil]
    /\ lowestCapacity = [t \in Threads |-> 0]
    /\ upAddr = [t \in Threads |-> [Addr |-> "", Metadata |-> NilMetadata]]
    /\ err = [t \in Threads |-> "nil"]
    /\ spc = "idle"
    /\ sTarget = ""
    /\ sIdx = 0
    /\ grpcAddrs = <<>>
    /\ releases = [r \in Refs |-> 0]
    /\ handles = {}
    /\ crashed = FALSE

\* err := a.claim()
AddrClaim(t, r) ==
    /\ pc[t] = "idle"
    /\ lb_addrs[r[2]] = r
    /\ heap' = [heap EXCEPT ![r] = claim(@).a]
    /\ err' = [err EXCEPT ![t] = claim(heap[r]).err]
    /\ addr' = [addr EXCEPT ![t] = r]
    /\ pc' = [pc EXCEPT ![t] = "claim_return"]
    /\ UNCHANGED <<lbVars, mu, nAlloc, wait, idx, lowestCapacity, upAddr,
                   starterVars, cbVars, crashed>>

\* a.release(), by the caller whose claim() has returned
AddrRelease(t) ==
    /\ pc[t] = "claim_return"
    /\ heap[addr[t]].activeRequests > -MaxDeficit
    /\ heap' = [heap EXCEPT ![addr[t]] = release(@)]
    /\ pc' = [pc EXCEPT ![t] = "idle"]
    /\ ResetLocals(t)
    /\ UNCHANGED <<lbVars, mu, nAlloc, starterVars, cbVars, crashed>>

\* The caller keeps what it claimed.
AddrKeep(t) ==
    /\ pc[t] = "claim_return"
    /\ pc' = [pc EXCEPT ![t] = "idle"]
    /\ ResetLocals(t)
    /\ UNCHANGED <<lbVars, mu, heap, nAlloc, starterVars, cbVars, crashed>>

\* a.goUp()
AddrGoUp(t, r) ==
    /\ pc[t] = "idle"
    /\ lb_addrs[r[2]] = r
    /\ heap' = [heap EXCEPT ![r] = goUp(@)]
    /\ UNCHANGED <<lbVars, mu, nAlloc, callerVars, starterVars, cbVars, crashed>>

\* a.goDown(err)
AddrGoDown(t, r) ==
    /\ pc[t] = "idle"
    /\ lb_addrs[r[2]] = r
    /\ heap' = [heap EXCEPT ![r] = goDown(@)]
    /\ UNCHANGED <<lbVars, mu, nAlloc, callerVars, starterVars, cbVars, crashed>>

NextAddress ==
    \/ \E t \in Threads, r \in Refs : AddrClaim(t, r)
    \/ \E t \in Threads : AddrRelease(t)
    \/ \E t \in Threads : AddrKeep(t)
    \/ \E t \in Threads, r \in Refs : AddrGoUp(t, r)
    \/ \E t \in Threads, r \in Refs : AddrGoDown(t, r)

SpecAddress == InitAddress /\ [][NextAddress]_vars

\* ------------------------------------------------------------------ claims
\* The slots of the pool, once Start has stored them.
Started == \A i \in Indexes : lb_addrs[i] # Nil
Slot(i) == heap[lb_addrs[i]]

\* C1: for every slot, the number of release callbacks returned by a
\* successful Get and not yet invoked never exceeds the slot's maxRequests.
C1_GrantsWithinCeiling ==
    \A r \in Refs : releases[r] <= heap[r].maxRequests

\* C2: the Get that returns slot s with a nil error has itself incremented
\* s.activeRequests by exactly one (the step from next's claim to Get's return).
C2_ReturnedSlotWasClaimed ==
    [][\A t \in Threads :
        (pc[t] = "next_claim" /\ pc'[t] = "Get_return")
            => heap'[addr[t]].activeRequests = heap[addr[t]].activeRequests + 1]_vars

\* C3: activeRequests is never negative, when every release callback invoked
\* is one a Get returned with a nil error and is invoked at most once.
C3_ActiveRequestsNonNegative ==
    \A r \in Refs : heap[r].activeRequests >= 0

\* C4 as stated: at the moment Get returns slot s with a nil error, s is Up.
C4_ReturnedSlotIsUp ==
    \A t \in Threads : pc[t] = "Get_return" => isUp(heap[addr[t]])

\* C4 as amended: the slot a Get returns was Up when that Get's scan read its
\* health: the scan goes on to read a slot's load only at a step where the
\* slot is Up, and next's addr is only ever set to the slot whose load it is
\* reading.
C4_ReturnedSlotWasSeenUp ==
    [][\A t \in Threads :
        /\ (pc[t] = "next_isDown" /\ pc'[t] = "next_capacity")
              => isUp(heap[lb_addrs[idx[t]]])
        /\ (pc'[t] = "next_capacity" /\ pc[t] # "next_capacity")
              => pc[t] = "next_isDown" /\ idx'[t] = idx[t]
        /\ (addr'[t] # addr[t] /\ addr'[t] # Nil /\ pc'[t] \in GetPcs)
              => pc[t] = "next_capacity" /\ addr'[t] = lb_addrs[idx[t]]
        /\ (pc'[t] = "Get_return" /\ pc[t] # "Get_return")
              => addr'[t] = addr[t] /\ addr[t] # Nil]_vars

\* A Get is about to return a slot that a down-handle has put Down since the
\* scan read it.
C4_Witness ==
    \E t \in Threads : pc[t] = "Get_return" /\ isDown(heap[addr[t]])

\* The slots a scan may choose among: Up and under the ceiling.
Qualifying ==
    {i \in Indexes : lb_addrs[i] # Nil /\ isUp(Slot(i))
                     /\ Slot(i).activeRequests < Slot(i).maxRequests}

LeastLoaded(i) ==
    /\ i \in Qualifying
    /\ \A j \in Qualifying :
          \/ Slot(i).activeRequests < Slot(j).activeRequests
          \/ Slot(i).activeRequests = Slot(j).activeRequests /\ i <= j

\* C5: when a scan has run with no concurrent operation and some slot is Up
\* and under its ceiling, the slot next goes on to claim and return is the one
\* with the least activeRequests among the slots that are Up and under their
\* ceiling, and of several with that least load the one with the lowest index.
C5_LeastLoadedLowestIndex ==
    \A t \in Threads :
        (pc[t] \in {"next_RUnlock", "next_claim"} /\ Qualifying # {})
            => \E i \in Indexes : LeastLoaded(i) /\ addr[t] = lb_addrs[i]

\* A scan has chosen between two slots that are both Up and under the ceiling.
C5_Witness ==
    \E t \in Threads :
        /\ pc[t] = "next_claim"
        /\ Cardinality(Qualifying) >= 2
        /\ addr[t] = lb_addrs[0]

AllDown == Started /\ \A i \in Indexes : isDown(Slot(i))

AllUpAtCeiling ==
    /\ Started
    /\ \E i \in Indexes : isUp(Slot(i))
    /\ \A i \in Indexes :
          isUp(Slot(i)) => Slot(i).activeRequests = Slot(i).maxRequests

ScanPcs == {"next_RLock", "next_isDown", "next_capacity", "next_assign",
            "next_RUnlock"}

\* A step of a non-blocking Get taken in a pool where Exhausted holds changes
\* no slot and hands out no release callback, and the Get ends only by
\* returning errUnavailable.
FailsUnavailable(t, Exhausted) ==
    (pc[t] \in GetPcs /\ ~wait[t] /\ Exhausted /\ pc'[t] # pc[t])
        => /\ heap' = heap
           /\ releases' = releases
           /\ pc'[t] \in ScanPcs \cup {"Get_err", "idle"}
           /\ pc'[t] = "idle" => pc[t] = "Get_err"

\* C6: a Get with BlockingWait=false whose scan runs with every slot Down
\* returns errUnavailable and leaves every slot's activeRequests and health
\* unchanged.
C6_AllDownUnavailable ==
    [][\A t \in Threads : FailsUnavailable(t, AllDown)]_vars

\* A non-blocking Get returns errUnavailable from a pool whose slots are all Down.
C6_Witness ==
    \E t \in Threads : pc[t] = "Get_err" /\ ~wait[t] /\ AllDown

\* C7: a Get with BlockingWait=false whose scan runs with every Up slot at
\* its ceiling (and some slot Up) returns errUnavailable, returns no slot and
\* leaves every slot's activeRequests unchanged.
C7_AllAtCeilingUnavailable ==
    [][\A t \in Threads : FailsUnavailable(t, AllUpAtCeiling)]_vars

\* C8: a Get with BlockingWait=true never returns an error.
C8_BlockingGetNeverFails ==
    \A t \in Threads : pc[t] = "Get_err" => ~wait[t]

\* A blocking Get whose scan found no slot is sleeping before its next scan.
C8_Witness ==
    \E t \in Threads : pc[t] = "next_Sleep" /\ wait[t]

SlotUp(i) == lb_addrs[i] # Nil /\ isUp(Slot(i))

\* Where a Get is while its scan has read no slot as Up.
SeenNoneUp(t) ==
    /\ pc[t] \in {"next_RLock", "next_isDown", "next_RUnlock", "next_Sleep"}
    /\ addr[t] = Nil

AllAddresses(target) ==
    [k \in 1..numAddrs |-> [Addr |-> target, Metadata |-> k - 1]]

StartReturns == spc = "sendNotify_send" /\ spc' = "idle"

\* C10: the step on which a call of Start(target) returns puts exactly one
\* element on the Notify channel, the sequence of the numAddrs addresses
\* (target, 0..numAddrs-1) whatever the slots' health; no other step puts an
\* element on the channel (the only other change is a receive).
C10_OneSnapshotPerStart ==
    [][/\ StartReturns => notify' = Append(notify, AllAddresses(sTarget))
       /\ (notify' # notify /\ ~StartReturns)
             => notify # <<>> /\ notify' = Tail(notify)]_vars

\* Start has returned and its snapshot is on the channel, every slot being Down.
C10_Witness ==
    /\ spc = "idle"
    /\ AllDown
    /\ Len(notify) = 1
    /\ notify[1] = AllAddresses(lb_target)

UpPcs == {"Up_RLock", "Up_RUnlock", "Up_range", "Up_goUp", "Up_noop"}

\* A step of caller t: its position or its loop index changes.
StepOf(t) == <<pc[t], idx[t]>>' # <<pc[t], idx[t]>>

\* A step of the environment that changes a slot and is no release: the
\* invocation of a handle Up returned.
HandleStep ==
    /\ heap' # heap
    /\ pc' = pc
    /\ spc' = spc
    /\ sIdx' = sIdx
    /\ releases' = releases

\* The slots whose published address is ga.
Matching(ga) == {i \in Indexes : lb_addrs[i] # Nil /\ Address(Slot(i)) = ga}

\* C11: Up(addr) for an addr equal to a slot's published address sets that
\* slot's health to Up and nothing else (the step on which Up returns its
\* handle changes the state field of the slot whose address is addr, and no
\* other field of any slot); an Up does not return the no-op handle while a
\* slot matches; every other step of Up changes no slot; and the invocation
\* of a handle sets the health of a slot an Up returned a handle for to Down
\* and changes nothing else.
C11_UpAndHandleChangeOnlyHealth ==
    [][/\ \A t \in Threads :
            (pc[t] = "Up_goUp" /\ pc'[t] # "Up_goUp")
                => /\ Address(heap[addr[t]]) = upAddr[t]
                   /\ heap' = [heap EXCEPT ![addr[t]].state = stateUp]
                   /\ handles' = handles \cup {addr[t]}
       /\ \A t \in Threads :
            (pc[t] \in UpPcs \ {"Up_goUp"} /\ StepOf(t))
                => heap' = heap /\ handles' = handles
       /\ \A t \in Threads : pc[t] = "Up_noop" => Matching(upAddr[t]) = {}
       /\ HandleStep
            => \E r \in handles : heap' = [heap EXCEPT ![r].state = stateDown]]_vars

\* A handle has put its slot Down while the slot carries a request and
\* another slot is Up.
C11_Witness ==
    \E r \in handles :
        /\ isDown(heap[r])
        /\ heap[r].activeRequests = 1
        /\ \E q \in Refs \ {r} : isUp(heap[q])

\* The base address of the started pool: the target, and no Metadata.
BaseAddress == [Addr |-> lb_target, Metadata |-> NilMetadata]

\* C12 as stated: after Start(target), an Up with the base address (Addr the
\* target, Metadata absent) matches a slot and puts it Up: it does not come to
\* return the no-op handle.
C12_BaseAddressUpMatches ==
    \A t \in Threads :
        (Started /\ upAddr[t] = BaseAddress) => pc[t] # "Up_noop"

\* C12 as amended: an Up whose address has no Metadata matches no slot (no
\* step of it changes a slot or yields a handle on a slot); the Up that puts
\* a slot Up is the one called with (target, i), and it puts slot i Up and
\* never returns the no-op handle; and with operations one at a time a
\* non-blocking Get whose scan ends while some slot is Up has chosen a slot,
\* and one that fails found every slot Down.
C12_OnlyIndexedAddressMatches ==
    [][/\ \A t \in Threads :
            (pc[t] \in UpPcs /\ upAddr[t].Metadata = NilMetadata /\ StepOf(t))
                => /\ heap' = heap
                   /\ handles' = handles
                   /\ pc'[t] # "Up_goUp"
       /\ \A t \in Threads :
            (pc[t] = "Up_goUp" /\ pc'[t] # "Up_goUp")
                => /\ upAddr[t].Metadata \in Indexes
                   /\ upAddr[t].Addr = lb_target
                   /\ addr[t] = lb_addrs[upAddr[t].Metadata]
                   /\ isUp(heap'[addr[t]])
       /\ \A t \in Threads :
            pc[t] = "Up_noop"
                => upAddr[t] \notin {[Addr |-> lb_target, Metadata |-> i] : i \in Indexes}
       /\ \A t \in Threads :
            (pc[t] = "next_RUnlock" /\ ~wait[t] /\ \E i \in Indexes : SlotUp(i))
                => addr[t] # Nil /\ pc'[t] \in {"next_RUnlock", "next_claim"}
       /\ \A t \in Threads : pc[t] = "Get_err" => AllDown]_vars

\* After Start, an Up called with the base address has matched no slot and is
\* about to return the no-op handle.
C12_Witness ==
    \E t \in Threads :
        /\ Started
        /\ pc[t] = "Up_noop"
        /\ upAddr[t] = BaseAddress

\* C13: an Up(addr) whose addr matches no slot does not fail (no step of it
\* panics), changes no slot's health or activeRequests, and returns the no-op
\* handle (never a handle on a slot).
C13_UnmatchedUpIsNoop ==
    [][\A t \in Threads :
        (pc[t] \in UpPcs /\ Matching(upAddr[t]) = {} /\ StepOf(t))
            => /\ pc'[t] # "panic"
               /\ ~crashed'
               /\ heap' = heap
               /\ handles' = handles
               /\ pc'[t] # "Up_goUp"]_vars

\* C14: a Get that returns an error returns errUnavailable and nothing else
\* (next hands it no slot, so the address it returns is the zero address);
\* the step on which it returns hands out no release callback bound to a slot
\* and changes no slot (the callback it returns is func() {}, which has no
\* statement to run); and a Get that returns a slot returns a nil error:
\* errMaxRequestsExceeded never reaches Get's caller.
C14_OnlyUnavailableAndNoopRelease ==
    [][/\ \A t \in Threads :
            pc[t] = "Get_err" => err[t] = "errUnavailable" /\ addr[t] = Nil
       /\ \A t \in Threads : pc[t] = "Get_return" => err[t] = "nil"
       /\ \A t \in Threads :
            (pc[t] = "Get_err" /\ pc'[t] # "Get_err")
                => /\ pc'[t] = "idle"
                   /\ releases' = releases
                   /\ heap' = heap]_vars

\* A non-blocking Get is returning errUnavailable from a pool in which a slot
\* carries a request.
C14_Witness ==
    \E t \in Threads :
        /\ pc[t] = "Get_err"
        /\ err[t] = "errUnavailable"
        /\ \E r \in Refs : heap[r].activeRequests = 1

\* The step on which claim() returns to caller t.
ClaimReturns(t) == pc[t] = "idle" /\ pc'[t] = "claim_return"

\* C15 as stated: for every starting value of activeRequests in
\* 0..maxRequests, release() applied to the slot as claim() left it gives
\* back the value activeRequests had before the claim().
C15_ClaimReleaseRoundTrip ==
    [][\A t \in Threads :
        (ClaimReturns(t)
            /\ heap[addr'[t]].activeRequests \in 0..heap[addr'[t]].maxRequests)
            => release(heap'[addr'[t]]).activeRequests
                   = heap[addr'[t]].activeRequests]_vars

\* C15 as amended: the round trip restores activeRequests from every starting
\* value below the ceiling (where claim() succeeds); at the ceiling claim()
\* fails and changes nothing, and the release() after it leaves activeRequests
\* one below its value before the claim().
C15_RoundTripBelowCeiling ==
    [][\A t \in Threads :
        ClaimReturns(t) =>
            LET a == heap[addr'[t]]
                b == heap'[addr'[t]]
            IN /\ a.activeRequests \in 0..(a.maxRequests - 1)
                    => /\ err'[t] = "nil"
                       /\ release(b).activeRequests = a.activeRequests
               /\ a.activeRequests = a.maxRequests
                    => /\ err'[t] = "errMaxRequestsExceeded"
                       /\ b = a
                       /\ release(b).activeRequests = a.activeRequests - 1]_vars

\* A claim() on a slot that is Down has succeeded and taken the slot to its
\* ceiling.
C15_Witness ==
    \E t \in Threads :
        /\ pc[t] = "claim_return"
        /\ err[t] = "nil"
        /\ isDown(heap[addr[t]])
        /\ heap[addr[t]].activeRequests = heap[addr[t]].maxRequests

\* C16: claim() returns nil and increments activeRequests by one iff
\* activeRequests < maxRequests at the call, and otherwise returns
\* errMaxRequestsExceeded and changes nothing (the step of a Get that calls
\* claim() changes the chosen slot in that way and no other slot); and
\* activeRequests <= maxRequests holds of every slot before and after every
\* step, whatever the interleaving of Get, release, Up, handles and Start.
C16_ClaimEnforcesCeiling ==
    [][/\ \A r \in Refs : heap[r].activeRequests <= heap[r].maxRequests
       /\ \A r \in Refs : heap'[r].activeRequests <= heap'[r].maxRequests
       /\ \A t \in Threads :
            (pc[t] = "next_claim" /\ pc'[t] # "next_claim") =>
                LET a == heap[addr[t]] IN
                /\ (claim(a).err = "nil") <=> (a.activeRequests < a.maxRequests)
                /\ claim(a).err \in {"nil", "errMaxRequestsExceeded"}
                /\ heap' = [heap EXCEPT ![addr[t]].activeRequests =
                                IF a.activeRequests < a.maxRequests
                                THEN a.activeRequests + 1
                                ELSE a.activeRequests]]_vars

\* Two Gets have called claim() on the same slot, which is at its ceiling:
\* one of the two claims was refused.
C16_Witness ==
    \E t, u \in Threads :
        /\ t # u
        /\ pc[t] = "Get_return"
        /\ pc[u] = "Get_return"
        /\ addr[t] = addr[u]
        /\ heap[addr[t]].activeRequests = heap[addr[t]].maxRequests

\* A step that is not one of Start's.
NotStartStep == spc' = spc /\ sIdx' = sIdx

\* C17: when Start(target) returns (nothing having run beside it) the pool is
\* numAddrs distinct slots, slot i with address (target, i), health Down,
\* activeRequests 0 and ceiling maxRequests; a pool that has its numAddrs
\* slots keeps having them; and no step of Up, a handle, Get, a release
\* callback or Close changes which slots the pool holds, or the address or the
\* ceiling of any slot.
C17_StartInitialisesPool ==
    [][/\ StartReturns
            => /\ lb_target' = sTarget
               /\ Cardinality({lb_addrs'[i] : i \in Indexes}) = numAddrs
               /\ \A i \in Indexes :
                    /\ lb_addrs'[i] # Nil
                    /\ heap'[lb_addrs'[i]] =
                           [Addr |-> sTarget, Metadata |-> i, state |-> stateDown,
                            activeRequests |-> 0, maxRequests |-> maxRequests]
       /\ Started => Started'
       /\ NotStartStep
            => /\ lb_addrs' = lb_addrs
               /\ lb_target' = lb_target
               /\ \A r \in Refs :
                    /\ Address(heap'[r]) = Address(heap[r])
                    /\ heap'[r].maxRequests = heap[r].maxRequests]_vars

\* After Start, an Up and a Get, and with the release callback of the Get
\* still to be invoked, the slot has the address and the ceiling Start gave it.
C17_Witness ==
    \E i \in Indexes :
        /\ SlotUp(i)
        /\ Slot(i).activeRequests = 1
        /\ releases[lb_addrs[i]] = 1
        /\ Address(Slot(i)) = [Addr |-> lb_target, Metadata |-> i]
        /\ Slot(i).maxRequests = maxRequests

\* C18: with no reader of the Notify channel, the send of sendNotify never
\* has to wait (when Start comes to it the channel holds fewer than numAddrs
\* elements), and, the scheduler being fair, every call of Start returns (or
\* the process has panicked).
C18_StartReturnsWithoutReader ==
    /\ [](spc = "sendNotify_send" => Len(notify) < numAddrs)
    /\ (spc # "idle") ~> (spc = "idle" \/ crashed)

\* Every Start has returned and its snapshot is still on the channel.
C18_Witness ==
    /\ spc = "idle"
    /\ nAlloc = MaxStarts
    /\ Len(notify) = MaxStarts
    /\ ~crashed

\* Where a caller is about to read an element of the slot sequence
\* (lb.addrs[i] in next, addrs[i] in Up: the same backing array).
ElementReadPcs == {"next_isDown", "next_capacity", "next_assign", "Up_range"}

\* C19: every read of an element of the slot sequence happens while the
\* reader holds lb.mu in shared mode (the callers in next and Up, the starter
\* in sendNotify), so that no caller is about to read element i while Start,
\* holding lb.mu, is about to write element i.
C19_ElementReadsUnderRLock ==
    /\ \A t \in Threads : pc[t] \in ElementReadPcs => t \in mu.readers
    /\ spc = "sendNotify_range" => Starter \in mu.readers
    /\ \A t \in Threads :
          ~(pc[t] \in ElementReadPcs /\ spc = "Start_fill" /\ idx[t] = sIdx)

\* Where a caller holds lb.mu in shared mode: in the scan of next, and in Up
\* between RLock and RUnlock.  None of these positions waits for a lock, for
\* the channel or for the clock.
HoldsRLockPcs == {"next_isDown", "next_capacity", "next_assign", "next_RUnlock",
                  "Up_RUnlock"}

=============================================================================
